---- MODULE Spec2Model ----
\* A model of midori's TransitionPass (src/src/pipeline/transition-pass.ts): the
\* pass that keeps the previous Background alive during a transition, drives one
\* TWEEN.Tween from amount 0 to amount 1 and composites through a per-kind
\* TransitionEffect.  Every public method is one action; the callbacks the tween
\* fires (onStart, onUpdate, onComplete, onStop) run inside the action that
\* triggers them, in the order the code runs them.
EXTENDS Integers, Sequences, FiniteSets, TLC

\* ---------------------------------------------------------------- bounds

\* the number of transition() calls a behaviour makes
MaxTransitions == 2
\* the number of animation frames (TWEEN.update calls) a behaviour makes
MaxFrames == 3
\* the number of render() calls a behaviour makes
MaxRenders == 1
\* the number of setSize() calls a behaviour makes
MaxResizes == 1

\* ------------------------------------------------------------- constants

\* transition-pass.ts:201-202 converts seconds to milliseconds
MsPerSecond == 1000
\* progress amounts are kept in thousandths: 1000 stands for amount = 1
AmountOne == 1000
\* BlendShader's default mixRatio (0.5), in thousandths
BlendDefaultMixRatio == 500

\* null / undefined references (unit, effect and tween identifiers start at 1)
Null == 0
\* an argument a callback was not given
Undefined == -1
\* a vector or ratio uniform the shader does not have
NoVector == <<0, 0>>

TransitionType == {"None", "Blend", "Blur", "Wipe", "Slide", "Glitch"}

\* the frame interval of the host's animation loop, in milliseconds
FrameMs == MsPerSecond
\* the sizes the host gives the pass (width, height)
Sizes == {<<1, 1>>, <<2, 1>>}
\* the delays and durations (seconds) a transition is configured with
Delays == {0, 2}
Durations == {0, 2}

VARIABLES
  width,             \* this._width
  height,            \* this._height
  prevBackground,    \* this._prevBackground: a unit identifier
  buffer,            \* this._buffer: the intermediate render target
  enabled,           \* Pass.enabled
  transition,        \* this._transition: a tween identifier
  transitionEffect,  \* this._transitionEffect: an effect identifier, or Null
  tweens,            \* every TWEEN.Tween constructed so far
  group,             \* the tweens registered in TWEEN's global group
  effects,           \* every TransitionEffect constructed so far
  units,             \* every Background constructed so far
  now,               \* the animation clock, in milliseconds
  frames,            \* the number of TWEEN.update calls so far
  events,            \* what the last method call did, in order
  error,             \* the exception the last method call raised, or "none"
  lastOp,            \* the last method called
  passDisposed,      \* dispose() has been called on the pass
  nEnded,            \* how many times onTransitionEnd has run
  nRenders,          \* how many times render() has been called
  nResizes           \* how many times setSize() has been called

vars == <<width, height, prevBackground, buffer, enabled, transition,
          transitionEffect, tweens, group, effects, units, now, frames,
          events, error, lastOp, passDisposed, nEnded, nRenders, nResizes>>

\* The state as one record, so that the code's statements compose as functions.
St ==
  [width |-> width, height |-> height, prevBackground |-> prevBackground,
   buffer |-> buffer, enabled |-> enabled, transition |-> transition,
   transitionEffect |-> transitionEffect, tweens |-> tweens, group |-> group,
   effects |-> effects, units |-> units, now |-> now, frames |-> frames,
   events |-> events, error |-> error, lastOp |-> lastOp,
   passDisposed |-> passDisposed, nEnded |-> nEnded, nRenders |-> nRenders,
   nResizes |-> nResizes]

\* A method call begins: nothing raised yet, nothing done yet.
Enter(s, op) == [s EXCEPT !.events = <<>>, !.error = "none", !.lastOp = op]

\* the tweens that are playing
Playing(s) == {t \in 1..Len(s.tweens) : s.tweens[t].isPlaying}

\* One entry of the call's record: a callback or a step, with the arguments it
\* was given and what it could observe of the pass at that moment.
Emit(s, what, a, b) ==
  [s EXCEPT !.events = Append(@, [what |-> what, a |-> a, b |-> b,
                                  prev |-> s.prevBackground,
                                  enabled |-> s.enabled,
                                  effect |-> s.transitionEffect,
                                  playing |-> Playing(s)])]

\* A TypeError: reading a property of undefined.
Throw(s) == [s EXCEPT !.error = "TypeError"]

\* ------------------------------------------------------------ Background

\* new Background(texture, width, height)
BackgroundNew(s, w, h, blank) ==
  [s EXCEPT !.units = Append(@, [w |-> w, h |-> h, blank |-> blank,
                                 disposed |-> 0, renders |-> 0])]

\* the identifier of the unit BackgroundNew adds
NextUnit(s) == Len(s.units) + 1

\* Background.setSize
BackgroundSetSize(s, u, w, h) ==
  [s EXCEPT !.units[u].w = w, !.units[u].h = h]

\* Background.render: advances the camera and the particles once per call
BackgroundRender(s, u) ==
  Emit([s EXCEPT !.units[u].renders = @ + 1], "unit.render", u, Undefined)

\* Background.dispose
BackgroundDispose(s, u) ==
  Emit([s EXCEPT !.units[u].disposed = @ + 1], "unit.dispose", u, Undefined)

\* ------------------------------------------------------- TransitionEffect

\* the uniforms a shader declares, with the shader's own initial values
ShaderUniforms(shader) ==
  [mixRatio   |-> IF shader = "BlendShader" THEN BlendDefaultMixRatio ELSE Undefined,
   amount     |-> IF shader = "BlendShader" THEN Undefined ELSE 0,
   prevAmount |-> IF shader \in {"SlideShader", "BlurShader"} THEN 0 ELSE Undefined,
   aspect     |-> NoVector,
   resolution |-> NoVector]

\* an empty uniforms object, {}
NoUniforms == [k \in {} |-> Undefined]

\* updateUniforms merges the given values into the live set
MergeUniforms(live, given) ==
  [k \in DOMAIN live |-> IF k \in DOMAIN given THEN given[k] ELSE live[k]]

\* new TransitionEffect(shader, uniforms), constructed by tween t's onStart;
\* `initial` keeps the uniforms it was constructed with
TransitionEffectNew(s, shader, given, t) ==
  [s EXCEPT !.effects = Append(@, [shader |-> shader,
                                   uniforms |-> MergeUniforms(ShaderUniforms(shader), given),
                                   initial |-> MergeUniforms(ShaderUniforms(shader), given),
                                   disposed |-> 0,
                                   owner |-> t])]

\* TransitionEffect.updateUniforms
UpdateUniforms(s, e, given) ==
  [s EXCEPT !.effects[e].uniforms = MergeUniforms(@, given)]

\* TransitionEffect.render
TransitionEffectRender(s, e) == Emit(s, "effect.render", e, Undefined)

\* TransitionEffect.dispose
TransitionEffectDispose(s, e) ==
  Emit([s EXCEPT !.effects[e].disposed = @ + 1], "effect.dispose", e, Undefined)

RECURSIVE GCD(_, _)
GCD(a, b) == IF b = 0 THEN a ELSE GCD(b, a % b)

\* this._width / this._height, as a fraction in lowest terms
Aspect(s) ==
  <<s.width \div GCD(s.width, s.height), s.height \div GCD(s.width, s.height)>>

\* the tweens the pass or the group still holds
LiveTweens(s) == s.group \cup {s.transition} \cup Playing(s)

\* the units the pass can still reach: the previous background and the
\* backgrounds the live tweens' callbacks are closed over
LiveUnits(s) ==
  {s.prevBackground} \cup {s.tweens[t].background : t \in LiveTweens(s)}

\* What is left of an object nothing refers to any more: how often it was
\* disposed.  Its other fields can never be read again.
Forget(s) ==
  [s EXCEPT
     !.tweens = [t \in DOMAIN @ |->
                   IF t \in LiveTweens(s) THEN @[t]
                   ELSE [background |-> Null, kind |-> "None", duration |-> 0,
                         delay |-> 0, startTime |-> 0, amount |-> 0,
                         isPlaying |-> FALSE, onStartCallbackFired |-> FALSE]],
     !.units = [u \in DOMAIN @ |->
                  IF u \in LiveUnits(s) THEN @[u]
                  ELSE [w |-> 0, h |-> 0, blank |-> FALSE,
                        disposed |-> @[u].disposed, renders |-> 0]],
     !.effects = [e \in DOMAIN @ |->
                    IF e = s.transitionEffect THEN @[e]
                    ELSE [shader |-> "", uniforms |-> ShaderUniforms(""),
                          initial |-> ShaderUniforms(""),
                          disposed |-> @[e].disposed, owner |-> @[e].owner]]]

Commit(s0) ==
  \E s \in {Forget(s0)} :
  /\ width' = s.width
  /\ height' = s.height
  /\ prevBackground' = s.prevBackground
  /\ buffer' = s.buffer
  /\ enabled' = s.enabled
  /\ transition' = s.transition
  /\ transitionEffect' = s.transitionEffect
  /\ tweens' = s.tweens
  /\ group' = s.group
  /\ effects' = s.effects
  /\ units' = s.units
  /\ now' = s.now
  /\ frames' = s.frames
  /\ events' = s.events
  /\ error' = s.error
  /\ lastOp' = s.lastOp
  /\ passDisposed' = s.passDisposed
  /\ nEnded' = s.nEnded
  /\ nRenders' = s.nRenders
  /\ nResizes' = s.nResizes

\* ------------------------------------------------- TransitionPass, private

\* _setTransitionEffect that replaces the effect held without disposing it
SetTransitionEffect_NoDispose(s, shader, given, t) ==
  [TransitionEffectNew(s, shader, given, t)
     EXCEPT !.transitionEffect = Len(s.effects) + 1]

\* _setTransitionEffect: dispose the effect held, construct the next one
SetTransitionEffect(s, shader, given, t) ==
  LET s1 == IF s.transitionEffect # Null
            THEN [TransitionEffectDispose(s, s.transitionEffect)
                    EXCEPT !.transitionEffect = Null]
            ELSE s
  IN  [TransitionEffectNew(s1, shader, given, t)
         EXCEPT !.transitionEffect = Len(s1.effects) + 1]

\* onTransitionStart
OnTransitionStart(s) == [s EXCEPT !.enabled = TRUE]

\* onTransitionEnd that adopts the given background as it is, null included
OnTransitionEnd_NoBlank(s, background) ==
  LET s1 == [s EXCEPT !.enabled = FALSE]
      s2 == IF s1.prevBackground # Null
            THEN BackgroundDispose(s1, s1.prevBackground)
            ELSE s1
  IN  Emit([s2 EXCEPT !.prevBackground = background, !.nEnded = @ + 1],
           "end", background, Undefined)

\* onTransitionEnd that leaves the previous background undisposed
OnTransitionEnd_NoDispose(s, background) ==
  LET s1 == [s EXCEPT !.enabled = FALSE]
      s3 == IF background # Null
            THEN s1
            ELSE BackgroundNew(s1, s1.width, s1.height, TRUE)
      u  == IF background # Null THEN background ELSE NextUnit(s1)
  IN  Emit([s3 EXCEPT !.prevBackground = u, !.nEnded = @ + 1],
           "end", background, Undefined)

\* onTransitionEnd that builds the blank background with width and height
\* exchanged
OnTransitionEnd_SwappedSize(s, background) ==
  LET s1 == [s EXCEPT !.enabled = FALSE]
      s2 == IF s1.prevBackground # Null
            THEN BackgroundDispose(s1, s1.prevBackground)
            ELSE s1
      s3 == IF background # Null
            THEN s2
            ELSE BackgroundNew(s2, s2.height, s2.width, TRUE)
      u  == IF background # Null THEN background ELSE NextUnit(s2)
  IN  Emit([s3 EXCEPT !.prevBackground = u, !.nEnded = @ + 1],
           "end", background, Undefined)

\* onTransitionEnd, closed over the background given to transition()
OnTransitionEnd(s, background) ==
  LET s1 == [s EXCEPT !.enabled = FALSE]
      s2 == IF s1.prevBackground # Null
            THEN BackgroundDispose(s1, s1.prevBackground)
            ELSE s1
      s3 == IF background # Null
            THEN s2
            ELSE BackgroundNew(s2, s2.width, s2.height, TRUE)
      u  == IF background # Null THEN background ELSE NextUnit(s2)
  IN  Emit([s3 EXCEPT !.prevBackground = u, !.nEnded = @ + 1],
           "end", background, Undefined)

\* baseTransitionConfig.onInit: the caller's onInit(prevBackground, background)
OnInit(s, background) == Emit(s, "onInit", s.prevBackground, background)

\* baseTransitionConfig.onStart
BaseOnStart(s, background) ==
  OnTransitionStart(Emit(s, "onStart", s.prevBackground, background))

\* baseTransitionConfig.onUpdate
BaseOnUpdate(s, background) == Emit(s, "onUpdate", s.prevBackground, background)

\* onComplete that calls the caller's callback only
OnComplete_NoEnd(s, background) ==
  Emit(s, "onComplete", s.prevBackground, background)

\* baseTransitionConfig.onComplete
OnComplete(s, background) ==
  OnTransitionEnd(Emit(s, "onComplete", s.prevBackground, background), background)

\* baseTransitionConfig.onStop
OnStop(s, background) ==
  OnTransitionEnd(Emit(s, "onStop", s.prevBackground, background), background)

\* the onStart that _getTransitionConfig returns for tween t's kind
OnStart(s, t) ==
  LET background == s.tweens[t].background
      kind == s.tweens[t].kind
  IN  CASE kind = "None" ->
             \* `onStart` here is the caller's callback, called without arguments
             Emit(SetTransitionEffect(s, "BlendShader", [mixRatio |-> AmountOne], t),
                  "onStart", Undefined, Undefined)
        [] kind = "Blend" ->
             BaseOnStart(SetTransitionEffect(s, "BlendShader", NoUniforms, t), background)
        [] kind = "Wipe" ->
             BaseOnStart(SetTransitionEffect(s, "WipeShader", [aspect |-> Aspect(s)], t),
                         background)
        [] kind = "Slide" ->
             BaseOnStart(SetTransitionEffect(s, "SlideShader", NoUniforms, t), background)
        [] kind = "Blur" ->
             BaseOnStart(SetTransitionEffect(s, "BlurShader", NoUniforms, t), background)
        [] kind = "Glitch" ->
             BaseOnStart(SetTransitionEffect(s, "GlitchShader",
                                             [resolution |-> <<s.width, s.height>>], t),
                         background)

\* onUpdate's uniforms with the Wipe aspect and the Glitch resolution left as
\* they were when the effect was constructed
UniformsOnUpdate_SizeAtStart(s, kind, amount) ==
  CASE kind = "Blend" -> [mixRatio |-> amount]
    [] kind \in {"Slide", "Blur"} ->
         [prevAmount |-> s.effects[s.transitionEffect].uniforms.amount,
          amount |-> amount]
    [] kind \in {"Wipe", "Glitch"} -> [amount |-> amount]

\* onUpdate's uniforms with Slide's and Blur's prevAmount reset on every update
UniformsOnUpdate_PrevReset(s, kind, amount) ==
  CASE kind = "Blend" -> [mixRatio |-> amount]
    [] kind = "Wipe" -> [amount |-> amount, aspect |-> Aspect(s)]
    [] kind \in {"Slide", "Blur"} -> [prevAmount |-> 0, amount |-> amount]
    [] kind = "Glitch" -> [resolution |-> <<s.width, s.height>>, amount |-> amount]

\* onUpdate's uniforms with Blend's amount written under its own name
UniformsOnUpdate_BlendAmount(s, kind, amount) ==
  CASE kind = "Blend" -> [amount |-> amount]
    [] kind = "Wipe" -> [amount |-> amount, aspect |-> Aspect(s)]
    [] kind \in {"Slide", "Blur"} ->
         [prevAmount |-> s.effects[s.transitionEffect].uniforms.amount,
          amount |-> amount]
    [] kind = "Glitch" -> [resolution |-> <<s.width, s.height>>, amount |-> amount]

\* the uniforms each kind's onUpdate writes at this amount
UniformsOnUpdate(s, kind, amount) ==
  CASE kind = "Blend" -> [mixRatio |-> amount]
    [] kind = "Wipe" -> [amount |-> amount, aspect |-> Aspect(s)]
    [] kind \in {"Slide", "Blur"} ->
         [prevAmount |-> s.effects[s.transitionEffect].uniforms.amount,
          amount |-> amount]
    [] kind = "Glitch" ->
         \* resolution.set() writes into the Vector2 the effect holds
         [resolution |-> <<s.width, s.height>>, amount |-> amount]

\* the onUpdate that _getTransitionConfig returns for tween t's kind
OnUpdate(s, t, amount) ==
  LET background == s.tweens[t].background
      kind == s.tweens[t].kind
      e == s.transitionEffect
  IN  IF kind = "None" THEN BaseOnUpdate(s, background)
      ELSE IF e = Null THEN Throw(s)
      ELSE BaseOnUpdate(UpdateUniforms(s, e, UniformsOnUpdate(s, kind, amount)),
                        background)

\* ------------------------------------------------------------ TWEEN.Tween

\* new TWEEN.Tween(from).to(to, duration).on...(...).delay(delay)
TweenNew(s, background, kind, duration, delay) ==
  [s EXCEPT !.tweens = Append(@, [background |-> background, kind |-> kind,
                                  duration |-> duration, delay |-> delay,
                                  startTime |-> 0, amount |-> 0,
                                  isPlaying |-> FALSE,
                                  onStartCallbackFired |-> FALSE])]

\* Tween.start: joins the group and plays from now + delay
TweenStart(s, t) ==
  Emit([s EXCEPT !.group = @ \cup {t},
                 !.tweens[t].isPlaying = TRUE,
                 !.tweens[t].onStartCallbackFired = FALSE,
                 !.tweens[t].startTime = s.now + s.tweens[t].delay],
       "start", t, Undefined)

\* Tween.stop: nothing when not playing; otherwise leaves the group, stops
\* playing and then fires onStop
TweenStop(s, t) ==
  IF ~s.tweens[t].isPlaying
  THEN s
  ELSE OnStop([s EXCEPT !.group = @ \ {t}, !.tweens[t].isPlaying = FALSE],
              s.tweens[t].background)

\* Tween.isPlaying
TweenIsPlaying(s, t) == s.tweens[t].isPlaying

\* the eased progress at `time`, in thousandths (linear easing)
Elapsed(tw, time) ==
  IF tw.duration = 0 \/ time - tw.startTime >= tw.duration
  THEN AmountOne
  ELSE (AmountOne * (time - tw.startTime)) \div tw.duration

\* Tween.update(time), and what the group does when it returns false
TweenUpdate(s, t, time) ==
  LET tw == s.tweens[t] IN
  IF time < tw.startTime
  THEN s
  ELSE LET s1 == IF tw.onStartCallbackFired
                 THEN s
                 ELSE [OnStart(s, t) EXCEPT !.tweens[t].onStartCallbackFired = TRUE]
           amount == Elapsed(tw, time)
           s2 == OnUpdate([s1 EXCEPT !.tweens[t].amount = amount], t, amount)
       IN  IF amount = AmountOne
           THEN [OnComplete(s2, tw.background)
                   EXCEPT !.tweens[t].isPlaying = FALSE, !.group = @ \ {t}]
           ELSE s2

SetMin(S) == CHOOSE x \in S : \A y \in S : x <= y

\* TWEEN.update(time): every tween of the group, in the order they were added
RECURSIVE GroupUpdate(_, _, _)
GroupUpdate(s, ids, time) ==
  IF ids = {}
  THEN s
  ELSE LET t == SetMin(ids)
       IN  GroupUpdate(IF t \in s.group THEN TweenUpdate(s, t, time) ELSE s,
                       ids \ {t}, time)

\* -------------------------------------------------- TransitionPass, public

\* isTransitioning() answered from the pass's enabled flag
IsTransitioning_Enabled(s) == s.enabled

\* isTransitioning()
IsTransitioning(s) == TweenIsPlaying(s, s.transition)

\* transition() that calls onInit before it stops the tween in flight
DoTransition_InitBeforeStop(s, background, kind, duration, delay) ==
  LET s1 == OnInit(s, background)
      s2 == TweenStop(s1, s1.transition)
      s3 == TweenNew(s2, background, kind, duration * MsPerSecond, delay * MsPerSecond)
      t  == Len(s3.tweens)
  IN  TweenStart([s3 EXCEPT !.transition = t], t)

\* transition() that does not stop the tween in flight
DoTransition_NoStop(s, background, kind, duration, delay) ==
  LET s2 == OnInit(s, background)
      s3 == TweenNew(s2, background, kind, duration * MsPerSecond, delay * MsPerSecond)
      t  == Len(s3.tweens)
  IN  TweenStart([s3 EXCEPT !.transition = t], t)

\* transition() that runs the held tween's onStop whether it plays or not
DoTransition_AlwaysEnd(s, background, kind, duration, delay) ==
  LET s0 == [s EXCEPT !.group = @ \ {s.transition},
                      !.tweens[s.transition].isPlaying = FALSE]
      s1 == OnStop(s0, s.tweens[s.transition].background)
      s2 == OnInit(s1, background)
      s3 == TweenNew(s2, background, kind, duration * MsPerSecond, delay * MsPerSecond)
      t  == Len(s3.tweens)
  IN  TweenStart([s3 EXCEPT !.transition = t], t)

\* transition(background, transition, config)
DoTransition(s, background, kind, duration, delay) ==
  LET s1 == TweenStop(s, s.transition)
      s2 == OnInit(s1, background)
      s3 == TweenNew(s2, background, kind, duration * MsPerSecond, delay * MsPerSecond)
      t  == Len(s3.tweens)
  IN  TweenStart([s3 EXCEPT !.transition = t], t)

\* setSize(width, height)
DoSetSize(s, w, h) ==
  LET s1 == [s EXCEPT !.width = w, !.height = h]
      s2 == BackgroundSetSize(s1, s1.prevBackground, w, h)
  IN  [s2 EXCEPT !.buffer.w = w, !.buffer.h = h]

\* render() without the isTransitioning() guard
DoRender_NoGuard(s) ==
  LET s1 == BackgroundRender(s, s.prevBackground)
  IN  IF s1.transitionEffect = Null
      THEN Throw(s1)
      ELSE TransitionEffectRender(s1, s1.transitionEffect)

\* render(renderer, writeBuffer, readBuffer)
DoRender(s) ==
  IF IsTransitioning(s)
  THEN LET s1 == BackgroundRender(s, s.prevBackground)
       IN  IF s1.transitionEffect = Null
           THEN Throw(s1)
           ELSE TransitionEffectRender(s1, s1.transitionEffect)
  ELSE s

\* dispose() that disposes the previous background before it stops the tween
DoDispose_DisposeBeforeStop(s) ==
  LET s1 == BackgroundDispose(s, s.prevBackground)
      s2 == TweenStop(s1, s1.transition)
      s3 == [s2 EXCEPT !.buffer.disposed = @ + 1]
  IN  IF s3.transitionEffect = Null
      THEN Throw(s3)
      ELSE TransitionEffectDispose(s3, s3.transitionEffect)

\* dispose() that disposes the effect first
DoDispose_EffectFirst(s) ==
  IF s.transitionEffect = Null
  THEN Throw(s)
  ELSE LET s1 == TransitionEffectDispose(s, s.transitionEffect)
           s2 == TweenStop(s1, s1.transition)
           s3 == BackgroundDispose(s2, s2.prevBackground)
       IN  [s3 EXCEPT !.buffer.disposed = @ + 1]

\* dispose()
DoDispose(s) ==
  LET s1 == TweenStop(s, s.transition)
      s2 == BackgroundDispose(s1, s1.prevBackground)
      s3 == [s2 EXCEPT !.buffer.disposed = @ + 1]
  IN  IF s3.transitionEffect = Null
      THEN Throw(s3)
      ELSE TransitionEffectDispose(s3, s3.transitionEffect)

\* --------------------------------------------------------------- actions

\* new TransitionPass(background, width, height), background null or the host's
Init ==
  \E size \in Sizes, given \in BOOLEAN :
    /\ width = size[1]
    /\ height = size[2]
    /\ units = <<[w |-> size[1], h |-> size[2], blank |-> ~given,
                  disposed |-> 0, renders |-> 0]>>
    /\ prevBackground = 1
    /\ buffer = [w |-> size[1], h |-> size[2], disposed |-> 0]
    /\ enabled = FALSE
    /\ tweens = <<[background |-> Null, kind |-> "None", duration |-> MsPerSecond,
                   delay |-> 0, startTime |-> 0, amount |-> 0,
                   isPlaying |-> FALSE, onStartCallbackFired |-> FALSE]>>
    /\ transition = 1
    /\ group = {}
    /\ effects = <<>>
    /\ transitionEffect = Null
    /\ now = 0
    /\ frames = 0
    /\ events = <<>>
    /\ error = "none"
    /\ lastOp = "constructor"
    /\ passDisposed = FALSE
    /\ nEnded = 0
    /\ nRenders = 0
    /\ nResizes = 0

\* the host builds a Background (or none) and calls transition()
Transition ==
  /\ ~passDisposed
  /\ Len(tweens) - 1 < MaxTransitions
  /\ \E given \in BOOLEAN, kind \in TransitionType,
        duration \in Durations, delay \in Delays :
       LET s0 == Enter(St, "transition")
           s1 == IF given THEN BackgroundNew(s0, s0.width, s0.height, FALSE) ELSE s0
           background == IF given THEN Len(s1.units) ELSE Null
       IN  Commit(DoTransition(s1, background, kind, duration, delay))

\* The host's animation loop advances the clock and calls TWEEN.update().
\* Frames in which the group is empty are left out: update() returns at once
\* and a tween's timing is relative to the clock at its start().
Tick ==
  /\ frames < MaxFrames
  /\ group # {}
  /\ LET s0 == [Enter(St, "update") EXCEPT !.now = @ + FrameMs, !.frames = @ + 1]
     IN  Commit(GroupUpdate(s0, s0.group, s0.now))

\* the host resizes the pass
SetSize ==
  /\ ~passDisposed
  /\ nResizes < MaxResizes
  /\ \E size \in Sizes :
       Commit(DoSetSize([Enter(St, "setSize") EXCEPT !.nResizes = @ + 1],
                        size[1], size[2]))

\* the host (or its composer) renders the pass
Render ==
  /\ ~passDisposed
  /\ nRenders < MaxRenders
  /\ Commit(DoRender([Enter(St, "render") EXCEPT !.nRenders = @ + 1]))

\* the host disposes the pass
Dispose ==
  /\ ~passDisposed
  /\ Commit([DoDispose(Enter(St, "dispose")) EXCEPT !.passDisposed = TRUE])

Next == Transition \/ Tick \/ SetSize \/ Render \/ Dispose

Spec == Init /\ [][Next]_vars

\* ---------------------------------------------------------------- claims

\* the call's record has an entry of this kind
Has(evs, what) == \E i \in DOMAIN evs : evs[i].what = what

\* the position of the first entry of this kind
First(evs, what) ==
  CHOOSE i \in DOMAIN evs :
    evs[i].what = what /\ \A j \in 1..(i - 1) : evs[j].what # what

\* the number of transition() calls so far
nTransitions == Len(tweens) - 1

C2_OneAnimation ==
  /\ Cardinality(Playing(St)) <= 1
  /\ Playing(St) \subseteq {transition}
  /\ group = Playing(St)

\* C2 witness: a frame, after one transition superseded another, in which the
\* tween's callbacks fire
C2_Witness ==
  /\ nTransitions >= 2
  /\ lastOp = "update"
  /\ Has(events, "onUpdate")
  /\ tweens[transition].isPlaying

\* C3: the enabled flag is true iff the tween is playing.
C3_EnabledIffPlaying == enabled <=> IsTransitioning(St)

\* the current transition's onStart has fired and its Ending logic has not run
StartingOrActive ==
  /\ tweens[transition].onStartCallbackFired
  /\ nEnded < nTransitions

C5_PrevNonNull == prevBackground # Null /\ prevBackground \in DOMAIN units

\* C5 witness: a transition given no background has ended
C5_Witness ==
  /\ nEnded >= 1
  /\ Has(events, "end")
  /\ events[First(events, "end")].a = Null

C7_NoStaleEffect ==
  /\ (lastOp = "transition" /\ Has(events, "onStop") /\ transitionEffect # Null)
       => effects[transitionEffect].disposed > 0
  /\ \A i \in DOMAIN events :
       events[i].what = "effect.render" => effects[events[i].a].owner = transition

\* C8: render() never dereferences an effect that has not been constructed.
C8_RenderNeverDereferencesUndefined ==
  ~(lastOp = "render" /\ error = "TypeError")

\* C9: render() while no transition is active changes nothing: no unit or
\* effect is rendered, and the previous background, the buffer, the effect, the
\* enabled flag and the tween are as they were.
C9_IdleRenderNoOp ==
  [][(nRenders' = nRenders + 1 /\ ~IsTransitioning(St)) =>
       /\ events' = <<>>
       /\ error' = "none"
       /\ UNCHANGED <<prevBackground, units, buffer, transitionEffect, effects,
                      enabled, transition, tweens, group, width, height>>
    ]_vars

\* C9 witness: render() was called after a transition had ended
C9_Witness ==
  /\ lastOp = "render"
  /\ nEnded >= 1
  /\ ~tweens[transition].isPlaying

\* C10: dispose() on a pass on which transition() was never called raises
\* nothing.
C10_DisposeFreshDoesNotRaise ==
  (lastOp = "dispose" /\ nTransitions = 0) => error = "none"

\* the tween the pass holds, its kind and the effect the pass holds
CurrentTween == tweens[transition]
CurrentKind == tweens[transition].kind
CurrentEffect == effects[transitionEffect]

\* the last call was a frame in which the held tween's onUpdate ran
Updated == lastOp = "update" /\ Has(events, "onUpdate")

\* C11: after every update of a Wipe transition the effect's aspect is the
\* pass's present width / height, and after every update of a Glitch
\* transition its resolution is the present (width, height), whatever they
\* were when onStart constructed the effect.
C11_LiveSizeOnUpdate ==
  Updated =>
    /\ CurrentKind = "Wipe" => CurrentEffect.uniforms.aspect = Aspect(St)
    /\ CurrentKind = "Glitch" =>
         CurrentEffect.uniforms.resolution = <<width, height>>

\* C11 witness: an update after a setSize() that followed onStart
C11_Witness ==
  /\ Updated
  /\ \/ /\ CurrentKind = "Wipe"
        /\ CurrentEffect.uniforms.aspect # CurrentEffect.initial.aspect
     \/ /\ CurrentKind = "Glitch"
        /\ CurrentEffect.uniforms.resolution # CurrentEffect.initial.resolution

C13_PrevAmountIsLastAmount ==
  [][(lastOp' = "update" /\ Has(events', "onUpdate")
        /\ CurrentKind \in {"Slide", "Blur"}) =>
       /\ effects'[transitionEffect'].uniforms.amount = tweens'[transition].amount
       /\ CurrentTween.onStartCallbackFired =>
            /\ transitionEffect' = transitionEffect
            /\ CurrentEffect.uniforms.amount = CurrentTween.amount
            /\ effects'[transitionEffect'].uniforms.prevAmount = CurrentTween.amount
    ]_vars

\* C13 witness: the second update of a Slide transition, whose first update
\* wrote an amount above 0
C13_Witness ==
  /\ Updated
  /\ CurrentKind = "Slide"
  /\ CurrentEffect.uniforms.prevAmount > 0
  /\ CurrentEffect.uniforms.amount = AmountOne

\* how many entries of this kind the call's record has
Count(evs, what) == Cardinality({i \in DOMAIN evs : evs[i].what = what})

C16_OneLiveEffect ==
  /\ \A e \in DOMAIN effects : effects[e].disposed <= 1
  /\ \A e \in DOMAIN effects : effects[e].disposed = 0 => e = transitionEffect

\* C16 witness: the second transition's onStart replaced the first's effect
C16_Witness ==
  /\ lastOp = "update"
  /\ Len(effects) = 2
  /\ Has(events, "effect.dispose")
  /\ effects[1].disposed = 1
  /\ transitionEffect = 2

\* the shader each kind's onStart constructs its effect from
ShaderOf(kind) ==
  CASE kind \in {"None", "Blend"} -> "BlendShader"
    [] kind = "Wipe" -> "WipeShader"
    [] kind = "Slide" -> "SlideShader"
    [] kind = "Blur" -> "BlurShader"
    [] kind = "Glitch" -> "GlitchShader"

\* C17: when a transition's onStart fires, for every kind, the effect held
\* before is disposed, the pass holds a new effect of that kind, enabled has
\* been set, and the caller's onStart was given (previousUnit, newUnit).
C17_StartingForEveryKind ==
  (lastOp = "update" /\ Has(events, "onStart")) =>
    LET i == First(events, "onStart") IN
    /\ transitionEffect # Null
    /\ CurrentEffect.owner = transition
    /\ CurrentEffect.shader = ShaderOf(CurrentKind)
    /\ events[i].effect = transitionEffect
    /\ \A e \in 1..(transitionEffect - 1) : effects[e].disposed = 1
    /\ events[i].a = events[i].prev
    /\ events[i].b = CurrentTween.background
    /\ events[i + 1].enabled

\* C18: after every update of a Blend transition the effect's mixRatio is the
\* tween's amount; the effect of a None transition has mixRatio 1 from its
\* onStart on.
C18_MixRatio ==
  /\ (Updated /\ CurrentKind = "Blend") =>
       CurrentEffect.uniforms.mixRatio = CurrentTween.amount
  /\ (CurrentKind = "None" /\ CurrentTween.onStartCallbackFired) =>
       /\ transitionEffect # Null
       /\ CurrentEffect.owner = transition
       /\ CurrentEffect.uniforms.mixRatio = AmountOne

\* C18 witness: a Blend transition half way
C18_Witness ==
  /\ Updated
  /\ CurrentKind = "Blend"
  /\ CurrentTween.isPlaying
  /\ CurrentTween.amount > 0
  /\ CurrentEffect.uniforms.mixRatio = CurrentTween.amount

====
